---- MODULE Spec2Model ----
(***************************************************************************)
(* A model of lsst.sims.coordUtils.LsstCameraUtils: the cached detector    *)
(* index, the candidate filter of chipNameFromPupilCoordsLSST, the exact   *)
(* resolver _findDetectorsListLSST and the (RA, Dec) entry points.         *)
(*                                                                         *)
(* Frames.  Pupil (FIELD_ANGLE) coordinates are integers; the focal plane  *)
(* is the pupil frame scaled by PlateScale; a detector's pixel frame is    *)
(* the focal plane shifted by the detector's focal-plane origin.  The      *)
(* cameras below hold rectangular detectors whose half diagonals are       *)
(* integers in the pupil frame, so that the means and the square roots of  *)
(* _build_lsst_pupil_coord_map are exact in integer arithmetic.            *)
(***************************************************************************)
EXTENDS Integers, Sequences, FiniteSets, TLC

VARIABLES
    mapper_camera,      \* the camera LsstSimMapper().camera yields
    attrs,              \* the function attributes that are set (hasattr)
    lsst_camera_cache,  \* lsst_camera._lsst_camera
    pupil_map,          \* chipNameFromPupilCoordsLSST._pupil_map
    detector_arr,       \* chipNameFromPupilCoordsLSST._detector_arr
    camera_bbox,        \* chipNameFromPupilCoordsLSST._camera_bbox
    pc,                 \* position of the (single) caller
    call,               \* the arguments of the entry point under way
    pupil,              \* xPupil, yPupil inside chipNameFromPupilCoordsLSST
    valid_detectors,    \* the candidate lists handed to the resolver
    fd,                 \* the locals of _findDetectorsListLSST
    nameList,           \* what chipNameFromPupilCoordsLSST returned
    ret,                \* what the entry point returned or raised
    geom,               \* the geometric computations done by the call under way
    prev,               \* an earlier finished call, kept for comparison
    tpc,                \* concurrent callers: position of each thread
    tskip,              \* concurrent callers: whether the guard skipped the build
    tlen                \* concurrent callers: the number of points of the batch

vars == <<mapper_camera, attrs, lsst_camera_cache, pupil_map, detector_arr, camera_bbox,
          pc, call, pupil, valid_detectors, fd, nameList, ret, geom, prev,
          tpc, tskip, tlen>>

index_vars == <<attrs, lsst_camera_cache, pupil_map, detector_arr, camera_bbox>>
call_vars == <<pc, call, pupil, valid_detectors, fd, nameList, ret, geom>>
thread_vars == <<tpc, tskip, tlen>>

\* Largest number of points in one batch.
MaxPoints == 2

\* None as an entry of a list of chip names.
None == [kind |-> "None", names |-> <<>>]

----------------------------------------------------------------------------
\* Sequence helpers.

RECURSIVE SumSeq(_)
SumSeq(s) == IF s = <<>> THEN 0 ELSE Head(s) + SumSeq(Tail(s))

RECURSIVE Concat(_)
Concat(ss) == IF ss = <<>> THEN <<>> ELSE Head(ss) \o Concat(Tail(ss))

InSeq(e, s) == \E i \in 1..Len(s) : s[i] = e

Range(s) == {s[i] : i \in 1..Len(s)}

\* The indices 1..n in order, as np.where and enumerate yield them.
Indices(n) == [i \in 1..n |-> i]

Min(S) == CHOOSE m \in S : \A k \in S : m <= k
Max(S) == CHOOSE m \in S : \A k \in S : m >= k

\* np.sqrt on the values that occur: the integer square root.
ISqrt(n) == CHOOSE r \in 0..n : r * r <= n /\ (r + 1) * (r + 1) > n

----------------------------------------------------------------------------
\* The camera geometry (lsst.afw.cameraGeom, consumed by the module).

\* Focal-plane units per pupil unit (FIELD_ANGLE -> FOCAL_PLANE).
PlateScale == 2

Detector(n, t, fx, fy, w, h) ==
    [name |-> n, type |-> t, fx |-> fx, fy |-> fy, w |-> w, h |-> h]

\* Two science chips and the two halves of a wavefront sensor, which
\* overlap in projection (see the comment at lines 142-148).
LsstCamera ==
    << Detector("S0", "SCIENCE", 0, 0, 12, 16),
       Detector("W0", "WAVEFRONT", 12, 0, 12, 16),
       Detector("W1", "WAVEFRONT", 20, 0, 12, 16),
       Detector("S1", "SCIENCE", 56, 0, 12, 16) >>

EmptyCamera == << >>

\* A science chip, and a chip whose box has no area: its four corners coincide.
DegenerateCamera ==
    << Detector("S0", "SCIENCE", 0, 0, 12, 16),
       Detector("Z0", "SCIENCE", 20, 8, 0, 0) >>

\* A chip twice as large as the others beside a chip of the usual size: points
\* of the pupil grid lie at exactly 1.1 times the large chip's mean corner
\* distance from its center.
WideCamera ==
    << Detector("B0", "SCIENCE", 0, -8, 24, 32),
       Detector("B1", "SCIENCE", 32, 0, 12, 16) >>

Cameras == {LsstCamera, EmptyCamera, DegenerateCamera, WideCamera}

\* camera._transformSingleSysArray(points, FIELD_ANGLE, native), per point.
FieldAngleToFocalPlane(p) == <<PlateScale * p[1], PlateScale * p[2]>>

\* focal_to_field.applyForward, per point.
FocalPlaneToFieldAngle(p) == <<p[1] \div PlateScale, p[2] \div PlateScale>>

\* detector.getTransform(native, PIXELS).applyForward, per point.
DetectorTransform(d, fp) == <<fp[1] - d.fx, fp[2] - d.fy>>

\* afwGeom.Box2D: the empty box, include(point), contains(point).
EmptyBox == [empty |-> TRUE, minx |-> 0, maxx |-> 0, miny |-> 0, maxy |-> 0]

BoxInclude(b, p) ==
    IF b.empty
    THEN [empty |-> FALSE, minx |-> p[1], maxx |-> p[1], miny |-> p[2], maxy |-> p[2]]
    ELSE [empty |-> FALSE,
          minx |-> Min({b.minx, p[1]}), maxx |-> Max({b.maxx, p[1]}),
          miny |-> Min({b.miny, p[2]}), maxy |-> Max({b.maxy, p[2]})]

BoxContains(b, p) ==
    /\ ~b.empty
    /\ b.minx <= p[1] /\ p[1] < b.maxx
    /\ b.miny <= p[2] /\ p[2] < b.maxy

BoxCorners(b) ==
    IF b.empty THEN <<>>
    ELSE << <<b.minx, b.miny>>, <<b.maxx, b.miny>>,
            <<b.maxx, b.maxy>>, <<b.minx, b.maxy>> >>

\* afwGeom.Box2D(detector.getBBox()), in the detector's pixel frame.
DetectorBBox(d) ==
    [empty |-> FALSE, minx |-> 0, maxx |-> d.w, miny |-> 0, maxy |-> d.h]

RECURSIVE IncludeAll(_, _)
IncludeAll(b, ps) ==
    IF ps = <<>> THEN b ELSE IncludeAll(BoxInclude(b, Head(ps)), Tail(ps))

\* camera.getFpBBox(): the box around every detector in the focal plane.
FpBBox(camera) ==
    IncludeAll(EmptyBox,
               Concat([i \in 1..Len(camera) |->
                   << <<camera[i].fx, camera[i].fy>>,
                      <<camera[i].fx + camera[i].w, camera[i].fy + camera[i].h>> >>]))

\* camera[name]
CameraGet(camera, n) == camera[CHOOSE i \in 1..Len(camera) : camera[i].name = n]

\* getCornerPixels(chip_name, camera): the corners of the chip, in pixels.
GetCornerPixels(d) ==
    << <<0, 0>>, <<0, d.h>>, <<d.w, 0>>, <<d.w, d.h>> >>

\* pupilCoordsFromPixelCoords, per point: pixel -> focal plane -> pupil.
PupilCoordsFromPixelCoords(px, camera, n) ==
    FocalPlaneToFieldAngle(<<px[1] + CameraGet(camera, n).fx,
                             px[2] + CameraGet(camera, n).fy>>)

----------------------------------------------------------------------------
\* lsst_camera() and _build_lsst_pupil_coord_map().

\* lsst_camera(): the cached camera, fetched from the mapper on first use.
lsst_camera ==
    IF "_lsst_camera" \in attrs THEN lsst_camera_cache ELSE mapper_camera

\* Lines 43-54: one entry per corner of every chip, in camera order.
CornerList(camera) ==
    Concat([i \in 1..Len(camera) |->
        [k \in 1..Len(GetCornerPixels(camera[i])) |->
            [name |-> camera[i].name, pix |-> GetCornerPixels(camera[i])[k]]]])

\* Lines 59-62: the corners in pupil coordinates.
PupList(camera) ==
    [j \in 1..Len(CornerList(camera)) |->
        PupilCoordsFromPixelCoords(CornerList(camera)[j].pix, camera,
                                   CornerList(camera)[j].name)]

\* A slip: the third of the four corners is taken twice, the fourth left out.
Mean4OfThree(vals, ix) == (vals[ix + 1] + vals[ix + 2] + vals[ix + 3] + vals[ix + 3]) \div 4

\* Lines 70-74: the mean of the four corners starting after offset ix.
Mean4(vals, ix) == (vals[ix + 1] + vals[ix + 2] + vals[ix + 3] + vals[ix + 4]) \div 4

\* A slip: the sum of the four distances is divided by eight.
Extent4Halved(pup, ix, xx, yy) ==
    SumSeq([ii \in 1..4 |->
        ISqrt((xx - pup[ix + ii][1]) * (xx - pup[ix + ii][1]) +
              (yy - pup[ix + ii][2]) * (yy - pup[ix + ii][2]))]) \div 8

\* Lines 76-77: the mean distance of those four corners from (xx, yy).
Extent4(pup, ix, xx, yy) ==
    SumSeq([ii \in 1..4 |->
        ISqrt((xx - pup[ix + ii][1]) * (xx - pup[ix + ii][1]) +
              (yy - pup[ix + ii][2]) * (yy - pup[ix + ii][2]))]) \div 4

build_lsst_pupil_coord_map(camera) ==
    LET n_chips == Len(camera)
        name_list == [j \in 1..Len(CornerList(camera)) |-> CornerList(camera)[j].name]
        pup == PupList(camera)
        x_pup == [j \in 1..Len(pup) |-> pup[j][1]]
        y_pup == [j \in 1..Len(pup) |-> pup[j][2]]
        cx == [c \in 1..n_chips |-> Mean4(x_pup, 4 * (c - 1))]
        cy == [c \in 1..n_chips |-> Mean4(y_pup, 4 * (c - 1))]
    IN  [name |-> [c \in 1..n_chips |-> name_list[4 * (c - 1) + 1]],
         xx |-> cx,
         yy |-> cy,
         dp |-> [c \in 1..n_chips |-> Extent4(pup, 4 * (c - 1), cx[c], cy[c])]]

\* Lines 251-253: the detectors of the camera, in the order of the map's names.
BuildDetectorArr(camera, map) ==
    [ii \in 1..Len(map.name) |-> CameraGet(camera, map.name[ii])]

\* Lines 258-264: a Box2D around the camera, in pupil coordinates.
BuildCameraBBox(camera) ==
    LET focal_corners == BoxCorners(FpBBox(camera))
        pupil_corners == [k \in 1..Len(focal_corners) |->
                             FocalPlaneToFieldAngle(focal_corners[k])]
    IN  IncludeAll(EmptyBox, pupil_corners)

\* A slip: the index is built by every call.
NeedBuildAlways == TRUE

\* Lines 245-247: whether the call builds the index.
NeedBuild ==
    \/ "_pupil_map" \notin attrs
    \/ "_detector_arr" \notin attrs
    \/ Len(detector_arr) = 0

----------------------------------------------------------------------------
\* The candidate filter of chipNameFromPupilCoordsLSST.

\* _validate_inputs: the arrays must have the same length.
ValidateInputs(xs, ys) == Len(xs) = Len(ys)

\* Line 291: (1.1*dp)**2, in hundredths.
Rrsq_lim(map) == [c \in 1..Len(map.dp) |-> (11 * map.dp[c]) * (11 * map.dp[c])]

\* A slip: a center at exactly 1.1 radii still makes a candidate.
PossibleDexesInclusive(xx, yy, map) ==
    SelectSeq(Indices(Len(map.xx)),
              LAMBDA c : 100 * ((xx - map.xx[c]) * (xx - map.xx[c]) +
                                (yy - map.yy[c]) * (yy - map.yy[c])) <= Rrsq_lim(map)[c])

\* Line 298: np.where(((xx-x_cam)**2 + (yy-y_cam)**2) < rrsq_lim).
PossibleDexes(xx, yy, map) ==
    SelectSeq(Indices(Len(map.xx)),
              LAMBDA c : 100 * ((xx - map.xx[c]) * (xx - map.xx[c]) +
                                (yy - map.yy[c]) * (yy - map.yy[c])) < Rrsq_lim(map)[c])

\* A slip: the camera-containing Box2D is not consulted.
IsOkayAlways(bbox, p) == TRUE

\* Lines 277-280: whether the point is inside the camera-containing Box2D.
IsOkay(bbox, p) == BoxContains(bbox, p)

\* Lines 288-302: one list of candidate detectors per point.
ValidDetectors(xs, ys, map, arr, bbox) ==
    [i \in 1..Min({Len(xs), Len(ys)}) |->
        IF ~IsOkay(bbox, <<xs[i], ys[i]>>)
        THEN <<>>
        ELSE [k \in 1..Len(PossibleDexes(xs[i], ys[i], map)) |->
                 arr[PossibleDexes(xs[i], ys[i], map)[k]]]]

----------------------------------------------------------------------------
\* _findDetectorsListLSST.

ChipName(n) == [kind |-> "name", names |-> <<n>>]

NoFd ==
    [nativePointList |-> <<>>, outputNameList |-> <<>>, chip_has_found |-> <<>>,
     checked_detectors |-> <<>>, could_be_multiple |-> <<>>,
     update_unfound |-> FALSE, unfound_pts |-> <<>>,
     ipt |-> 0, idet |-> 0, xlog |-> <<>>, exit |-> "none", warnings |-> <<>>,
     scanned |-> <<>>]

\* A slip: any candidate at all makes the point one that could be on several.
CouldBeMultipleAnyType(detectorList, allow_multiple_chips) ==
    [ipt \in 1..Len(detectorList) |->
        allow_multiple_chips /\ Len(detectorList[ipt]) > 0]

\* Lines 149-154.
CouldBeMultiple(detectorList, allow_multiple_chips) ==
    [ipt \in 1..Len(detectorList) |->
        /\ allow_multiple_chips
        /\ \E k \in 1..Len(detectorList[ipt]) : detectorList[ipt][k].type = "WAVEFRONT"]

\* Line 134.
InitOutputNameList(pupilPointList) == [i \in 1..Len(pupilPointList) |-> None]

\* Lines 135-138.
InitChipHasFound(pupilPointList, detectorList) ==
    [i \in 1..Len(pupilPointList) |-> IF Len(detectorList[i]) = 0 THEN 1 ELSE -1]

\* Lines 127-158: the locals before the loop over the points.  The field
\* warnings holds the points a warning was emitted for: no line of the function
\* emits one, so it stays as it starts.
FDInit(pupilPointList, detectorList, allow_multiple_chips) ==
    [nativePointList |-> [i \in 1..Len(pupilPointList) |->
                             FieldAngleToFocalPlane(pupilPointList[i])],
     outputNameList |-> InitOutputNameList(pupilPointList),
     chip_has_found |-> InitChipHasFound(pupilPointList, detectorList),
     checked_detectors |-> <<>>,
     could_be_multiple |-> CouldBeMultiple(detectorList, allow_multiple_chips),
     update_unfound |-> TRUE,
     unfound_pts |-> <<>>,
     ipt |-> 1, idet |-> 0, xlog |-> <<>>, exit |-> "none", warnings |-> <<>>,
     scanned |-> <<>>]

\* A slip: the unfound points are computed for the first detector only.
RefreshUnfoundOnce(f) ==
    IF f.update_unfound /\ Len(f.checked_detectors) <= 1
    THEN [f EXCEPT !.unfound_pts = SelectSeq(Indices(Len(f.chip_has_found)),
                                             LAMBDA i : f.chip_has_found[i] < 0),
                   !.update_unfound = FALSE]
    ELSE [f EXCEPT !.update_unfound = FALSE]

\* Lines 172-174.
RefreshUnfound(f) ==
    IF f.update_unfound
    THEN [f EXCEPT !.unfound_pts = SelectSeq(Indices(Len(f.chip_has_found)),
                                             LAMBDA i : f.chip_has_found[i] < 0),
                   !.update_unfound = FALSE]
    ELSE f

\* A slip: the points already found are gathered too.
ValidPtDexesOfAllPoints(f, detector, detectorList) ==
    SelectSeq(Indices(Len(f.chip_has_found)), LAMBDA ii : InSeq(detector, detectorList[ii]))

\* Line 184.
ValidPtDexes(f, detector, detectorList) ==
    SelectSeq(f.unfound_pts, LAMBDA ii : InSeq(detector, detectorList[ii]))

\* A slip: the position in valid_pt_dexes is taken for the index of the point.
HitsByPosition(f, detector, valid_pt_dexes) ==
    {k \in 1..Len(valid_pt_dexes) :
        BoxContains(DetectorBBox(detector),
                    DetectorTransform(detector, f.nativePointList[valid_pt_dexes[k]]))}

\* Lines 188-193: the points of valid_pt_dexes that the detector's box contains.
Hits(f, detector, valid_pt_dexes) ==
    {ix \in Range(valid_pt_dexes) :
        BoxContains(DetectorBBox(detector),
                    DetectorTransform(detector, f.nativePointList[ix]))}

\* A slip: the new chip is put before the chips found so far.
AccumulatePrepend(cur, n) ==
    IF cur.kind = "None" THEN [kind |-> "name", names |-> <<n>>]
    ELSE [kind |-> "list", names |-> <<n>> \o cur.names]

\* A slip: the first chip of such a point already starts a list.
AccumulateAsList(cur, n) ==
    [kind |-> "list", names |-> Append(cur.names, n)]

\* Lines 206-211: one more chip for a point that could be on several.
Accumulate(cur, n) ==
    IF cur.kind = "None" THEN ChipName(n)
    ELSE IF cur.kind = "list" THEN [kind |-> "list", names |-> Append(cur.names, n)]
    ELSE [kind |-> "list", names |-> <<cur.names[1], n>>]

\* A slip: a point leaves the search once tested, on the chip or not.
MarksFoundWhenTested(f, ix, valid_pt_dexes, hits) ==
    InSeq(ix, valid_pt_dexes) /\ ~f.could_be_multiple[ix]

\* A slip: every point found on a chip leaves the search.
MarksFoundEvenIfMultiple(f, ix, valid_pt_dexes, hits) == ix \in hits

\* A slip: no point ever leaves the search.
MarksFoundNever(f, ix, valid_pt_dexes, hits) == FALSE

\* Lines 194-201: whether a point found on a chip leaves the search.
MarksFound(f, ix, valid_pt_dexes, hits) == ix \in hits /\ ~f.could_be_multiple[ix]

\* Lines 183-211: the detector's transform and box applied to its points.
TestDetector(f, detector, detectorList) ==
    LET valid_pt_dexes == ValidPtDexes(f, detector, detectorList)
        hits == Hits(f, detector, valid_pt_dexes)
        n == Len(f.outputNameList)
    IN  IF Len(valid_pt_dexes) = 0 THEN f
        ELSE [f EXCEPT
                !.outputNameList = [ix \in 1..n |->
                    IF ix \notin hits THEN f.outputNameList[ix]
                    ELSE IF ~f.could_be_multiple[ix] THEN ChipName(detector.name)
                    ELSE Accumulate(f.outputNameList[ix], detector.name)],
                !.chip_has_found = [ix \in 1..n |->
                    IF MarksFound(f, ix, valid_pt_dexes, hits) THEN 1 ELSE f.chip_has_found[ix]],
                !.update_unfound = f.update_unfound
                                     \/ \E ix \in 1..n : MarksFound(f, ix, valid_pt_dexes, hits),
                !.xlog = Append(f.xlog, [det |-> detector.name, pts |-> valid_pt_dexes])]

\* Lines 178-180 and 215-217: lists of names become strings.
Stringify(outputNameList) ==
    [ix \in 1..Len(outputNameList) |->
        IF outputNameList[ix].kind = "list"
        THEN [kind |-> "str", names |-> outputNameList[ix].names]
        ELSE outputNameList[ix]]

----------------------------------------------------------------------------
\* The (RA, Dec) entry points and their collaborators.

\* An ObservationMetaData: whether mjd, rotSkyPos and the pointing are set, and
\* the pointing.
ObsOk == [given |-> TRUE, has_mjd |-> TRUE, has_rot |-> TRUE, has_pointing |-> TRUE,
          ra |-> 20, dec |-> 10]
NoObs == [given |-> FALSE, has_mjd |-> FALSE, has_rot |-> FALSE, has_pointing |-> FALSE,
          ra |-> 0, dec |-> 0]
ObsCases == {ObsOk, NoObs, [ObsOk EXCEPT !.has_mjd = FALSE],
             [ObsOk EXCEPT !.has_rot = FALSE],
             [ObsOk EXCEPT !.has_pointing = FALSE, !.ra = 0, !.dec = 0]}

\* _pupilCoordsFromRaDec without a pointing: the missing-metadata error of the
\* conversion itself.
PupilCoordsError(obs) ==
    IF obs.has_pointing THEN "" ELSE "pupilCoordsFromRaDec: pointingRA, pointingDec"

\* The epoch argument of an entry point: a year, or None.
Epoch(y) == [given |-> TRUE, year |-> y]
NoEpoch == [given |-> FALSE, year |-> 0]

\* epoch=2000.0 in the signatures (lines 319, 388, 449 and 533).
DefaultEpoch == Epoch(2000)

Epochs == {DefaultEpoch, Epoch(2015), NoEpoch}

\* The shift of the coordinate grid between the equinox of 2000 and the epoch.
Precession(epoch) == (epoch.year - DefaultEpoch.year) \div 5

\* _pupilCoordsFromRaDec: the offset of (ra, dec) from the pointing, for the
\* equinox of the epoch it is given.
PupilCoordsFromRaDec(ra, dec, obs, epoch) ==
    [x |-> [i \in 1..Len(ra) |-> ra[i] - obs.ra + Precession(epoch)],
     y |-> [i \in 1..Len(dec) |-> dec[i] - obs.dec],
     epoch |-> epoch]

\* np.radians: a fixed scaling; the degrees of the model are half units.
Radians(deg) == [i \in 1..Len(deg) |-> deg[i] \div 2]
Degrees(rad) == [i \in 1..Len(rad) |-> 2 * rad[i]]

\* A slip: allow_multiple_chips is not passed on at line 380.
AllowMultipleChipsNotPassed(c) == c.api = "lookup" /\ c.allow

\* A slip: the pixel entry point asks for every chip of a point.
AllowMultipleChipsAlways(c) == c.api = "pixel" \/ c.allow

\* Line 525: the pixel entry point calls the chip finder with its default.
AllowMultipleChips(c) == IF c.api = "pixel" THEN FALSE ELSE c.allow

NotANumber == [nan |-> TRUE, x |-> 0, y |-> 0]

\* pixelCoordsFromPupilCoords, per point: NaN without a chip name and for a
\* chip that does not hold the point, else the pixel position on the chip.
PixelCoordsFromPupilCoords(p, chipName, camera) ==
    IF chipName.kind # "name" \/ ~\E i \in 1..Len(camera) : camera[i].name = chipName.names[1]
    THEN NotANumber
    ELSE LET d == CameraGet(camera, chipName.names[1])
             px == DetectorTransform(d, FieldAngleToFocalPlane(p))
         IN  IF BoxContains(DetectorBBox(d), px)
             THEN [nan |-> FALSE, x |-> px[1], y |-> px[2]]
             ELSE NotANumber

----------------------------------------------------------------------------
\* The inputs.

QueryPoints == { <<5, 6>>, <<11, 4>>, <<13, 4>>, <<17, 4>>, <<29, 4>>, <<-1, 4>> }

Batches == UNION {[1..n -> QueryPoints] : n \in 0..MaxPoints}

Xs(b) == [i \in 1..Len(b) |-> b[i][1]]
Ys(b) == [i \in 1..Len(b) |-> b[i][2]]

\* The arguments of a call: arrays (or two scalars, kept as arrays of one),
\* the epoch the function is given and, for a call through a wrapper in
\* degrees, the epoch the wrapper was given.
Args(api, xs, ys, allow, obs) ==
    [api |-> api, x |-> xs, y |-> ys, allow |-> allow, obs |-> obs,
     epoch |-> DefaultEpoch, scalar |-> FALSE, wrapped |-> FALSE,
     epoch_in |-> DefaultEpoch]

WithEpoch(a, e) == [a EXCEPT !.epoch = e, !.epoch_in = e]
AsScalar(a) == [a EXCEPT !.scalar = TRUE]

\* The batches of one point.
Singles == {b \in Batches : Len(b) = 1}

\* Arrays of the same length, and arrays of different lengths.
LookupArgs ==
    {Args("lookup", Xs(b), Ys(b), a, NoObs) : b \in Batches, a \in BOOLEAN}
    \cup {Args("lookup", <<p[1]>>, <<>>, a, NoObs) : p \in QueryPoints, a \in BOOLEAN}
    \cup {AsScalar(Args("lookup", Xs(b), Ys(b), a, NoObs)) : b \in Singles, a \in BOOLEAN}

RaOf(b) == [i \in 1..Len(b) |-> b[i][1] + ObsOk.ra]
DecOf(b) == [i \in 1..Len(b) |-> b[i][2] + ObsOk.dec]

\* The metadata and epoch of a call: what is missing, and what is passed.
SkyCases ==
    {<<o, DefaultEpoch>> : o \in ObsCases}
    \cup {<<ObsOk, Epoch(2015)>>, <<ObsOk, NoEpoch>>, <<NoObs, NoEpoch>>}

SkyArgs ==
    {WithEpoch(Args("sky", RaOf(b), DecOf(b), a, c[1]), c[2]) :
        b \in Batches, a \in BOOLEAN, c \in SkyCases}
    \cup {Args("sky", <<p[1] + ObsOk.ra>>, <<>>, a, ObsOk) : p \in QueryPoints, a \in BOOLEAN}
    \cup {AsScalar(Args("sky", RaOf(b), DecOf(b), a, ObsOk)) : b \in Singles, a \in BOOLEAN}

\* Two scalars are not passed to the pixel entry point here: what becomes of
\* them is decided by pixelCoordsFromPupilCoords.
PixelArgs ==
    {WithEpoch(Args("pixel", RaOf(b), DecOf(b), FALSE, c[1]), c[2]) :
        b \in Batches, c \in SkyCases}
    \cup {Args("pixel", <<p[1] + ObsOk.ra>>, <<>>, FALSE, ObsOk) : p \in QueryPoints}

\* What the callers of the wrappers in degrees pass: one point, as an array or
\* as two scalars, and any epoch.
DegArgs(api) ==
    {[Args(api, Degrees(RaOf(b)), Degrees(DecOf(b)), a, ObsOk)
         EXCEPT !.epoch_in = e, !.scalar = sc] :
        b \in Singles, a \in (IF api = "sky" THEN BOOLEAN ELSE {FALSE}),
        e \in Epochs, sc \in (IF api = "sky" THEN BOOLEAN ELSE {FALSE})}

\* Lines 440-444: what chipNameFromRaDecLSST passes to _chipNameFromRaDecLSST.
chipNameFromRaDecLSST(a) ==
    [a EXCEPT !.x = Radians(a.x), !.y = Radians(a.y), !.wrapped = TRUE,
              !.epoch = a.epoch_in]

\* Lines 595-599: what pixelCoordsFromRaDecLSST passes to _pixelCoordsFromRaDecLSST.
pixelCoordsFromRaDecLSST(a) ==
    [a EXCEPT !.x = Radians(a.x), !.y = Radians(a.y), !.wrapped = TRUE,
              !.epoch = DefaultEpoch]

NoCall == Args("none", <<>>, <<>>, FALSE, NoObs)
NoPupil == [x |-> <<>>, y |-> <<>>, epoch |-> NoEpoch]
NoRet == [kind |-> "none", names |-> <<>>, pixels |-> <<>>, error |-> ""]
Raised(msg) == [kind |-> "error", names |-> <<>>, pixels |-> <<>>, error |-> msg]
NoPrev == [kind |-> "none", call |-> NoCall, ret |-> NoRet, built |-> FALSE]

PupilPointList == [i \in 1..Min({Len(pupil.x), Len(pupil.y)}) |-> <<pupil.x[i], pupil.y[i]>>]

----------------------------------------------------------------------------
\* The state machine of one caller.

Init ==
    /\ mapper_camera \in Cameras
    /\ attrs = {}
    /\ lsst_camera_cache = <<>>
    /\ pupil_map = [name |-> <<>>, xx |-> <<>>, yy |-> <<>>, dp |-> <<>>]
    /\ detector_arr = <<>>
    /\ camera_bbox = EmptyBox
    /\ pc = "idle"
    /\ call = NoCall
    /\ pupil = NoPupil
    /\ valid_detectors = <<>>
    /\ fd = NoFd
    /\ nameList = <<>>
    /\ ret = NoRet
    /\ geom = {}
    /\ prev = NoPrev
    /\ tpc = <<>>
    /\ tskip = <<>>
    /\ tlen = <<>>

\* Line 245: where chipNameFromPupilCoordsLSST goes first.
EnterLookup == IF NeedBuild THEN "build_map" ELSE "validate"

\* chipNameFromPupilCoordsLSST is called (lines 244-247).
CallLookup(a) ==
    /\ pc = "idle"
    /\ call' = a
    /\ pupil' = [x |-> a.x, y |-> a.y, epoch |-> NoEpoch]
    /\ pc' = EnterLookup
    /\ UNCHANGED <<mapper_camera, index_vars, valid_detectors, fd, nameList, ret, geom,
                   prev, thread_vars>>

\* Lines 248-249.
BuildMap ==
    /\ pc = "build_map"
    /\ pupil_map' = build_lsst_pupil_coord_map(lsst_camera)
    /\ lsst_camera_cache' = lsst_camera
    /\ attrs' = attrs \cup {"_lsst_camera", "_pupil_map"}
    /\ geom' = geom \cup {"corners"}
    /\ pc' = "build_arr"
    /\ UNCHANGED <<mapper_camera, detector_arr, camera_bbox, call, pupil,
                   valid_detectors, fd, nameList, ret, prev, thread_vars>>

\* Lines 250-255.
BuildArr ==
    /\ pc = "build_arr"
    /\ detector_arr' = BuildDetectorArr(lsst_camera, pupil_map)
    /\ attrs' = attrs \cup {"_detector_arr"}
    /\ pc' = "build_bbox"
    /\ UNCHANGED <<mapper_camera, lsst_camera_cache, pupil_map, camera_bbox, call, pupil,
                   valid_detectors, fd, nameList, ret, geom, prev, thread_vars>>

\* Lines 257-265.
BuildBBox ==
    /\ pc = "build_bbox"
    /\ camera_bbox' = BuildCameraBBox(lsst_camera)
    /\ attrs' = attrs \cup {"_camera_bbox"}
    /\ geom' = geom \cup {"camera_bbox"}
    /\ pc' = "validate"
    /\ UNCHANGED <<mapper_camera, lsst_camera_cache, pupil_map, detector_arr, call, pupil,
                   valid_detectors, fd, nameList, ret, prev, thread_vars>>

\* Line 267.
Validate ==
    /\ pc = "validate"
    /\ IF ValidateInputs(pupil.x, pupil.y)
       THEN pc' = "filter" /\ ret' = ret
       ELSE pc' = "raised" /\ ret' = Raised("chipNameFromPupilCoordsLSST: xPupil, yPupil")
    /\ UNCHANGED <<mapper_camera, index_vars, call, pupil, valid_detectors, fd, nameList,
                   geom, prev, thread_vars>>

\* A slip: the radius is rescaled in place, in the array of the cached map.
PupilMapScaledInPlace ==
    [pupil_map EXCEPT !.dp = [c \in 1..Len(pupil_map.dp) |-> pupil_map.dp[c] \div 2]]

\* What the filter leaves in _pupil_map: lines 289-291 only read it.
PupilMapAfterFilter == pupil_map

\* Lines 269-302.
Filter ==
    /\ pc = "filter"
    /\ IF Len(pupil.x) > 0 /\ "_camera_bbox" \notin attrs
       THEN /\ pc' = "raised"
            /\ ret' = Raised("AttributeError: _camera_bbox")
            /\ UNCHANGED <<valid_detectors, geom>>
       ELSE /\ valid_detectors' = ValidDetectors(pupil.x, pupil.y, pupil_map,
                                                 detector_arr, camera_bbox)
            /\ geom' = geom \cup {"filter"}
            /\ pc' = "fd_init"
            /\ ret' = ret
    /\ pupil_map' = PupilMapAfterFilter
    /\ UNCHANGED <<mapper_camera, attrs, lsst_camera_cache, detector_arr, camera_bbox,
                   call, pupil, fd, nameList, prev, thread_vars>>

\* Lines 127-158.
FindInit ==
    /\ pc = "fd_init"
    /\ fd' = FDInit(PupilPointList, valid_detectors, AllowMultipleChips(call))
    /\ geom' = geom \cup {"native"}
    /\ pc' = "fd_outer"
    /\ UNCHANGED <<mapper_camera, index_vars, call, pupil, valid_detectors, nameList, ret,
                   prev, thread_vars>>

fd_unchanged == <<mapper_camera, index_vars, call, pupil, valid_detectors, nameList, ret,
                  prev, thread_vars>>

\* Lines 161-162: a point that needs no search.
FDOuterSkip ==
    /\ pc = "fd_outer"
    /\ fd.ipt <= Len(fd.nativePointList)
    /\ fd.chip_has_found[fd.ipt] >= 0
    /\ fd' = [fd EXCEPT !.ipt = fd.ipt + 1]
    /\ UNCHANGED <<fd_unchanged, pc, geom>>

\* Lines 161-163: the search over the candidates of a point starts.
FDOuterEnter ==
    /\ pc = "fd_outer"
    /\ fd.ipt <= Len(fd.nativePointList)
    /\ fd.chip_has_found[fd.ipt] < 0
    /\ fd' = [fd EXCEPT !.idet = 1, !.scanned = Append(fd.scanned, fd.ipt)]
    /\ pc' = "fd_inner"
    /\ UNCHANGED <<fd_unchanged, geom>>

\* A slip: the loop over the candidates does not move on from a candidate
\* that was considered before.
FDInnerSkipStays ==
    /\ pc = "fd_inner"
    /\ fd.idet <= Len(valid_detectors[fd.ipt])
    /\ InSeq(valid_detectors[fd.ipt][fd.idet], fd.checked_detectors)
    /\ UNCHANGED vars

\* Lines 166: a candidate that was considered before.
FDInnerSkip ==
    /\ pc = "fd_inner"
    /\ fd.idet <= Len(valid_detectors[fd.ipt])
    /\ InSeq(valid_detectors[fd.ipt][fd.idet], fd.checked_detectors)
    /\ fd' = [fd EXCEPT !.idet = fd.idet + 1]
    /\ UNCHANGED <<fd_unchanged, pc, geom>>

\* A slip: the candidate is not recorded in checked_detectors.
BeginVisitUnrecorded(f, detector) == RefreshUnfound(f)

\* Lines 167-174: the candidate is recorded and the unfound points refreshed.
BeginVisit(f, detector) ==
    RefreshUnfound([f EXCEPT !.checked_detectors = Append(f.checked_detectors, detector)])

\* A slip: the search stops while one point is still unfound.
AllFoundButOne(f) == Len(f.unfound_pts) <= 1

\* Line 176: we have already found all of the points.
AllFound(f) == Len(f.unfound_pts) = 0

\* Lines 166-211: a new detector is tested.
FDInnerVisit ==
    /\ pc = "fd_inner"
    /\ fd.idet <= Len(valid_detectors[fd.ipt])
    /\ ~InSeq(valid_detectors[fd.ipt][fd.idet], fd.checked_detectors)
    /\ ~AllFound(BeginVisit(fd, valid_detectors[fd.ipt][fd.idet]))
    /\ fd' = [TestDetector(BeginVisit(fd, valid_detectors[fd.ipt][fd.idet]),
                           valid_detectors[fd.ipt][fd.idet], valid_detectors)
                EXCEPT !.idet = fd.idet + 1]
    /\ geom' = geom \cup (IF Len(fd'.xlog) > Len(fd.xlog) THEN {"transform"} ELSE {})
    /\ UNCHANGED <<fd_unchanged, pc>>

\* Lines 166-181: every point has been found, the function returns.
FDInnerEarly ==
    /\ pc = "fd_inner"
    /\ fd.idet <= Len(valid_detectors[fd.ipt])
    /\ ~InSeq(valid_detectors[fd.ipt][fd.idet], fd.checked_detectors)
    /\ AllFound(BeginVisit(fd, valid_detectors[fd.ipt][fd.idet]))
    /\ fd' = [BeginVisit(fd, valid_detectors[fd.ipt][fd.idet])
                EXCEPT !.outputNameList = Stringify(fd.outputNameList),
                       !.exit = "early"]
    /\ pc' = "fd_done"
    /\ UNCHANGED <<fd_unchanged, geom>>

\* Line 163: the candidates of the point are exhausted.
FDInnerEnd ==
    /\ pc = "fd_inner"
    /\ fd.idet > Len(valid_detectors[fd.ipt])
    /\ fd' = [fd EXCEPT !.ipt = fd.ipt + 1, !.idet = 0]
    /\ pc' = "fd_outer"
    /\ UNCHANGED <<fd_unchanged, geom>>

\* Lines 213-221: the points are exhausted, the function returns.
FDOuterEnd ==
    /\ pc = "fd_outer"
    /\ fd.ipt > Len(fd.nativePointList)
    /\ fd' = [fd EXCEPT !.outputNameList = Stringify(fd.outputNameList),
                        !.exit = "end"]
    /\ pc' = "fd_done"
    /\ UNCHANGED <<fd_unchanged, geom>>

Names(v) == [kind |-> "names", names |-> v, pixels |-> <<>>, error |-> ""]
Pixels(v) == [kind |-> "pixels", names |-> <<>>, pixels |-> v, error |-> ""]
Scalar(v) == [kind |-> "scalar", names |-> <<v>>, pixels |-> <<>>, error |-> ""]

\* Line 310: the time per point, (time.time()-t_start)/float(len(xPupil)).
PerCapitaFails == Len(pupil.x) = 0

\* Lines 306-315: chipNameFromPupilCoordsLSST prints its timings and returns
\* the resolver's array; the division of line 310 raises for no points.
LookupReturn ==
    /\ pc = "fd_done"
    /\ IF PerCapitaFails
       THEN /\ pc' = "raised"
            /\ ret' = Raised("ZeroDivisionError")
            /\ nameList' = nameList
       ELSE /\ nameList' = fd.outputNameList
            /\ IF call.api = "lookup"
               THEN pc' = "returned" /\ ret' = Names(fd.outputNameList)
               ELSE /\ pc' = (IF call.api = "sky" THEN "sky_return" ELSE "pix_coords")
                    /\ ret' = ret
    /\ UNCHANGED <<mapper_camera, index_vars, call, pupil, valid_detectors, fd, geom,
                   prev, thread_vars>>

\* A slip: rotSkyPos is not looked at.
ArgErrorWithoutRotSkyPos(a, who) ==
    IF ~ValidateInputs(a.x, a.y) THEN who \o ": ra, dec"
    ELSE IF ~a.epoch.given THEN "You need to pass an epoch"
    ELSE IF ~a.obs.given THEN "You need to pass an ObservationMetaData"
    ELSE IF ~a.obs.has_mjd THEN "You need to pass an ObservationMetaData with an mjd"
    ELSE ""

\* Lines 357-369 and 505-517: the checks on the arguments, in order.
ArgError(a, who) ==
    IF ~ValidateInputs(a.x, a.y) THEN who \o ": ra, dec"
    ELSE IF ~a.epoch.given THEN "You need to pass an epoch"
    ELSE IF ~a.obs.given THEN "You need to pass an ObservationMetaData"
    ELSE IF ~a.obs.has_mjd THEN "You need to pass an ObservationMetaData with an mjd"
    ELSE IF ~a.obs.has_rot THEN "You need to pass an ObservationMetaData with a rotSkyPos"
    ELSE ""

\* _chipNameFromRaDecLSST is called (lines 357-380).
CallSky(a) ==
    /\ pc = "idle"
    /\ call' = a
    /\ IF ArgError(a, "chipNameFromRaDecLSST") # ""
       THEN /\ pc' = "raised"
            /\ ret' = Raised(ArgError(a, "chipNameFromRaDecLSST"))
            /\ UNCHANGED <<pupil, geom>>
       ELSE /\ geom' = {"pupilCoordsFromRaDec"}
            /\ IF PupilCoordsError(a.obs) # ""
               THEN /\ pc' = "raised"
                    /\ ret' = Raised(PupilCoordsError(a.obs))
                    /\ pupil' = pupil
               ELSE /\ pupil' = PupilCoordsFromRaDec(a.x, a.y, a.obs, a.epoch)
                    /\ pc' = EnterLookup
                    /\ ret' = ret
    /\ UNCHANGED <<mapper_camera, index_vars, valid_detectors, fd, nameList, prev,
                   thread_vars>>

\* Lines 382-384: ans[0] for two scalars, ans for arrays.
SkyReturn ==
    /\ pc = "sky_return"
    /\ ret' = IF call.scalar THEN Scalar(nameList[1]) ELSE Names(nameList)
    /\ pc' = "returned"
    /\ UNCHANGED <<mapper_camera, index_vars, call, pupil, valid_detectors, fd, nameList,
                   geom, prev, thread_vars>>

\* _pixelCoordsFromRaDecLSST is called without chipName (lines 500-525).
CallPixel(a) ==
    /\ pc = "idle"
    /\ call' = a
    /\ IF ArgError(a, "pixelCoordsFromRaDecLSST") # ""
       THEN /\ pc' = "raised"
            /\ ret' = Raised(ArgError(a, "pixelCoordsFromRaDecLSST"))
            /\ UNCHANGED <<pupil, geom>>
       ELSE /\ geom' = {"pupilCoordsFromRaDec"}
            /\ IF PupilCoordsError(a.obs) # ""
               THEN /\ pc' = "raised"
                    /\ ret' = Raised(PupilCoordsError(a.obs))
                    /\ pupil' = pupil
               ELSE /\ pupil' = PupilCoordsFromRaDec(a.x, a.y, a.obs, a.epoch)
                    /\ pc' = EnterLookup
                    /\ ret' = ret
    /\ UNCHANGED <<mapper_camera, index_vars, valid_detectors, fd, nameList, prev,
                   thread_vars>>

\* Lines 527-528.
PixCoords ==
    /\ pc = "pix_coords"
    /\ ret' = Pixels([i \in 1..Len(PupilPointList) |->
                  PixelCoordsFromPupilCoords(PupilPointList[i], nameList[i], lsst_camera)])
    /\ geom' = geom \cup {"pixelCoordsFromPupilCoords"}
    /\ pc' = "returned"
    /\ UNCHANGED <<mapper_camera, index_vars, call, pupil, valid_detectors, fd, nameList,
                   prev, thread_vars>>

\* The call is over: its locals go, the index stays.
Finish(remember) ==
    /\ pc \in {"returned", "raised"}
    /\ pc' = "idle"
    /\ call' = NoCall
    /\ pupil' = NoPupil
    /\ valid_detectors' = <<>>
    /\ fd' = NoFd
    /\ nameList' = <<>>
    /\ ret' = NoRet
    /\ geom' = {}
    /\ prev' = IF remember
               THEN [kind |-> "call", call |-> call, ret |-> ret,
                     built |-> "corners" \in geom]
               ELSE prev
    /\ UNCHANGED <<mapper_camera, index_vars, thread_vars>>

Steps ==
    \/ BuildMap \/ BuildArr \/ BuildBBox \/ Validate \/ Filter \/ FindInit
    \/ FDOuterSkip \/ FDOuterEnter \/ FDInnerSkip \/ FDInnerVisit \/ FDInnerEarly
    \/ FDInnerEnd \/ FDOuterEnd \/ LookupReturn

Next ==
    \/ pc = "idle" /\ \E a \in LookupArgs : CallLookup(a)
    \/ pc = "idle" /\ \E a \in SkyArgs : CallSky(a)
    \/ pc = "idle" /\ \E a \in PixelArgs : CallPixel(a)
    \/ pc = "idle" /\ \E a \in DegArgs("sky") : CallSky(chipNameFromRaDecLSST(a))
    \/ pc = "idle" /\ \E a \in DegArgs("pixel") : CallPixel(pixelCoordsFromRaDecLSST(a))
    \/ Steps
    \/ SkyReturn
    \/ PixCoords
    \/ Finish(FALSE)

Spec == Init /\ [][Next]_vars

\* A call made while the index is built raises: building the map (line 248),
\* fetching a detector (lines 251-253) or transforming the corners of the
\* camera's box (lines 258-264).  What was assigned before stays assigned.
BuildFails ==
    /\ pc \in {"build_map", "build_arr", "build_bbox"}
    /\ pc' = "raised"
    /\ ret' = Raised("raised in " \o pc)
    /\ UNCHANGED <<mapper_camera, index_vars, call, pupil, valid_detectors, fd, nameList,
                   geom, prev, thread_vars>>

\* Calls of chipNameFromPupilCoordsLSST on a camera whose calls may raise.
NextFail ==
    \/ pc = "idle" /\ \E a \in LookupArgs : CallLookup(a)
    \/ Steps
    \/ BuildFails
    \/ Finish(FALSE)

SpecFail == Init /\ [][NextFail]_vars

\* chipNameFromPupilCoordsLSST called by hand as by line 380: on the pupil
\* coordinates of the objects of a call of _chipNameFromRaDecLSST.
ReferenceArgs(a) ==
    Args("lookup", PupilCoordsFromRaDec(a.x, a.y, a.obs, a.epoch).x,
         PupilCoordsFromRaDec(a.x, a.y, a.obs, a.epoch).y, a.allow, NoObs)

\* Calls from (RA, Dec), one of which is kept, then the call from the pupil
\* coordinates of the same objects (as testClassMethods does).
NextCompose ==
    \/ pc = "idle" /\ prev.kind = "none" /\ \E a \in SkyArgs : CallSky(a)
    \/ pc = "idle" /\ prev.kind = "none" /\ \E a \in DegArgs("sky") : CallSky(chipNameFromRaDecLSST(a))
    \/ pc = "idle" /\ prev.kind = "call" /\ CallLookup(ReferenceArgs(prev.call))
    \/ Steps
    \/ SkyReturn
    \/ pc = "returned" /\ call.api = "sky" /\ prev.kind = "none" /\ Finish(TRUE)
    \/ Finish(FALSE)

SpecCompose == Init /\ [][NextCompose]_vars

\* The calls that may follow the kept call: the same call again, or a call of
\* at most one point in between.
RepeatArgs ==
    IF prev.kind = "call"
    THEN {prev.call} \cup {a \in LookupArgs : Len(a.x) + Len(a.y) <= 2}
    ELSE LookupArgs

\* Calls of chipNameFromPupilCoordsLSST alone, one earlier call being kept.
NextRepeat ==
    \/ pc = "idle" /\ \E a \in RepeatArgs : CallLookup(a)
    \/ Steps
    \/ \E remember \in BOOLEAN : Finish(remember)

SpecRepeat == Init /\ [][NextRepeat]_vars

----------------------------------------------------------------------------
\* What the claims speak of.

\* The detector's box holds the point, tested in the detector's pixel frame.
ContainsPoint(d, p) ==
    BoxContains(DetectorBBox(d), DetectorTransform(d, FieldAngleToFocalPlane(p)))

\* The point is in the detector's box and not on its border.
StrictlyInside(d, p) ==
    LET px == DetectorTransform(d, FieldAngleToFocalPlane(p))
    IN  0 < px[1] /\ px[1] < d.w /\ 0 < px[2] /\ px[2] < d.h

\* The detectors of the camera that hold point i of the batch under way.
Containing(i) == {d \in Range(mapper_camera) : ContainsPoint(d, PupilPointList[i])}

NamesOf(ds) == {d.name : d \in ds}

\* chipNameFromPupilCoordsLSST has returned nameList.
LookupDone ==
    \/ pc = "returned" /\ ret.kind \in {"names", "pixels", "scalar"}
    \/ pc \in {"sky_return", "pix_coords"}

\* The candidate lists of the call under way have been made.
FilterDone ==
    LookupDone \/ pc \in {"fd_init", "fd_outer", "fd_inner", "fd_done"}

\* The names of the visited detectors that hold point i, in the order of the visits.
VisitedContaining(i) ==
    LET visited == SelectSeq(fd.checked_detectors,
                             LAMBDA d : ContainsPoint(d, PupilPointList[i]))
    IN  [k \in 1..Len(visited) |-> visited[k].name]

\* Point i is held by overlap-class detectors only, all of them candidates.
OnlyOverlap(i) ==
    /\ Containing(i) # {}
    /\ \A d \in Containing(i) : d.type = "WAVEFRONT" /\ InSeq(d, valid_detectors[i])

Multiple(names) == [kind |-> "str", names |-> names]

\* C1 as stated: a point held by overlap-class candidates only gets Single(the
\* first visited detector that holds it) without allow_multiple, and Multiple(all
\* the detectors that hold it, in the order of the visits) with allow_multiple.
C1_OverlapPoint_AsStated ==
    LookupDone =>
        \A i \in 1..Len(PupilPointList) :
            OnlyOverlap(i) =>
                IF AllowMultipleChips(call)
                THEN /\ nameList[i] = Multiple(VisitedContaining(i))
                     /\ Range(nameList[i].names) = NamesOf(Containing(i))
                ELSE nameList[i] = ChipName(VisitedContaining(i)[1])

\* C1 as amended: with allow_multiple the result is Multiple(all the detectors
\* that hold the point, in the order of the visits) when two or more detectors
\* hold it, and Single(the one detector) when exactly one holds it.
C1_OverlapPoint ==
    LookupDone =>
        \A i \in 1..Len(PupilPointList) :
            OnlyOverlap(i) =>
                IF AllowMultipleChips(call)
                THEN /\ Range(nameList[i].names) = NamesOf(Containing(i))
                     /\ nameList[i] = (IF Cardinality(Containing(i)) >= 2
                                       THEN Multiple(VisitedContaining(i))
                                       ELSE ChipName(VisitedContaining(i)[1]))
                ELSE nameList[i] = ChipName(VisitedContaining(i)[1])

\* A point on both halves of the wavefront sensor, W1 visited before W0.
C1_Witness ==
    /\ LookupDone
    /\ AllowMultipleChips(call)
    /\ \E i \in 1..Len(PupilPointList) :
           OnlyOverlap(i) /\ nameList[i] = Multiple(<<"W1", "W0">>)

\* C2: a point strictly inside the box of exactly one science detector and
\* outside every other detector gets that detector's name alone, with and
\* without allow_multiple, whatever else is in the batch.
C2_StandardPointSingle ==
    LookupDone =>
        \A i \in 1..Len(PupilPointList) : \A d \in Range(mapper_camera) :
            ( /\ d.type = "SCIENCE"
              /\ StrictlyInside(d, PupilPointList[i])
              /\ Containing(i) = {d} )
            => nameList[i] = ChipName(d.name)

\* Such a point with a wavefront candidate, allow_multiple set, in a batch of two.
C2_Witness ==
    /\ LookupDone
    /\ AllowMultipleChips(call)
    /\ Len(PupilPointList) >= 2
    /\ \E i \in 1..Len(PupilPointList) : \E d \in Range(mapper_camera) :
           /\ d.type = "SCIENCE" /\ StrictlyInside(d, PupilPointList[i])
           /\ Containing(i) = {d}
           /\ fd.could_be_multiple[i]
           /\ nameList[i] = ChipName(d.name)

\* Every detector that holds a point is among the point's candidates.
FilterRecall ==
    \A i \in 1..Len(PupilPointList) :
        \A d \in Containing(i) : InSeq(d, valid_detectors[i])

\* C3: when the candidate lists hold every detector that holds the point, the
\* result agrees with testing every detector: None exactly when no detector
\* holds the point, and every name returned is that of a detector that does.
C3_AgreesWithExhaustive ==
    (LookupDone /\ FilterRecall) =>
        \A i \in 1..Len(PupilPointList) :
            /\ (nameList[i] = None) <=> (Containing(i) = {})
            /\ Range(nameList[i].names) \subseteq NamesOf(Containing(i))

\* A batch with a point on no detector that has candidates and a point on two.
C3_Witness ==
    /\ LookupDone /\ FilterRecall
    /\ \E i, j \in 1..Len(PupilPointList) :
           /\ nameList[i] = None /\ Len(valid_detectors[i]) > 0
           /\ nameList[j].kind = "str" /\ Len(nameList[j].names) = 2

\* Point i as it was passed to chipNameFromPupilCoordsLSST.
ArgPoint(i) == <<call.x[i], call.y[i]>>

\* C4 as stated: for every batch of M points, M = 0 included,
\* chipNameFromPupilCoordsLSST returns M entries.
C4_EveryBatchAnswered ==
    (pc \in {"returned", "raised"} /\ call.api = "lookup"
         /\ ValidateInputs(call.x, call.y))
        => pc = "returned" /\ Len(ret.names) = Len(call.x)

\* C4 for the calls that return: chipNameFromPupilCoordsLSST returns one entry
\* per point, entry i being the answer for point i: its names are detectors
\* that hold point i, and it is None only if no candidate of point i holds it.
C4_OneResultPerPoint ==
    (pc = "returned" /\ call.api = "lookup") =>
        /\ Len(ret.names) = Len(call.x)
        /\ \A i \in 1..Len(call.x) :
              /\ \A n \in Range(ret.names[i].names) :
                     \E d \in Range(mapper_camera) :
                         d.name = n /\ ContainsPoint(d, ArgPoint(i))
              /\ (\E k \in 1..Len(valid_detectors[i]) :
                      ContainsPoint(valid_detectors[i][k], ArgPoint(i)))
                  => ret.names[i] # None

\* A return through the early exit, of a batch whose first point has no candidates.
C4_Witness ==
    /\ pc = "returned" /\ call.api = "lookup"
    /\ fd.exit = "early"
    /\ Len(call.x) = 2
    /\ valid_detectors[1] = <<>>
    /\ ret.names[2].kind = "name"

\* Point i of the batch is outside the camera-containing box of the index.
OutsideBound(i) == ~BoxContains(camera_bbox, PupilPointList[i])

\* C5: a point outside the overall bound has no candidates, is never handed to
\* a detector's transform and gets None; when every point of the batch is
\* outside, no detector is visited.
C5_OutsidePointsUntouched ==
    FilterDone =>
        /\ \A i \in 1..Len(PupilPointList) :
              OutsideBound(i) =>
                  /\ valid_detectors[i] = <<>>
                  /\ \A k \in 1..Len(fd.xlog) : ~InSeq(i, fd.xlog[k].pts)
                  /\ LookupDone => nameList[i] = None
        /\ (\A i \in 1..Len(PupilPointList) : OutsideBound(i))
               => fd.checked_detectors = <<>> /\ fd.xlog = <<>>

\* A finished call with a point outside the bound and another point transformed.
C5_Witness ==
    /\ LookupDone
    /\ fd.xlog # <<>>
    /\ \E i \in 1..Len(PupilPointList) : OutsideBound(i) /\ nameList[i] = None

----------------------------------------------------------------------------
\* Callers of chipNameFromPupilCoordsLSST in several threads.  A thread may be
\* suspended between any two reads or writes of the function attributes; the
\* guard of lines 245-247 reads attributes that are only ever added, so one
\* step at its last read gives every outcome it can have.

Threads == {1, 2}

InitThreads ==
    /\ mapper_camera \in Cameras
    /\ attrs = {}
    /\ lsst_camera_cache = <<>>
    /\ pupil_map = [name |-> <<>>, xx |-> <<>>, yy |-> <<>>, dp |-> <<>>]
    /\ detector_arr = <<>>
    /\ camera_bbox = EmptyBox
    /\ pc = "idle"
    /\ call = NoCall
    /\ pupil = NoPupil
    /\ valid_detectors = <<>>
    /\ fd = NoFd
    /\ nameList = <<>>
    /\ ret = NoRet
    /\ geom = {}
    /\ prev = NoPrev
    /\ tpc = [t \in Threads |-> "start"]
    /\ tskip = [t \in Threads |-> FALSE]
    /\ tlen = [t \in Threads |-> 0]

seq_vars == <<mapper_camera, call_vars, prev>>

\* Lines 244-247: the thread calls with n points and evaluates the guard.
TCall(t, n) ==
    /\ tpc[t] = "start"
    /\ tlen' = [tlen EXCEPT ![t] = n]
    /\ tskip' = [tskip EXCEPT ![t] = ~NeedBuild]
    /\ tpc' = [tpc EXCEPT ![t] = EnterLookup]
    /\ UNCHANGED <<seq_vars, index_vars>>

\* Lines 248-249.
TBuildMap(t) ==
    /\ tpc[t] = "build_map"
    /\ pupil_map' = build_lsst_pupil_coord_map(lsst_camera)
    /\ lsst_camera_cache' = lsst_camera
    /\ attrs' = attrs \cup {"_lsst_camera", "_pupil_map"}
    /\ tpc' = [tpc EXCEPT ![t] = "build_arr"]
    /\ UNCHANGED <<seq_vars, detector_arr, camera_bbox, tskip, tlen>>

\* Lines 250-255.
TBuildArr(t) ==
    /\ tpc[t] = "build_arr"
    /\ detector_arr' = BuildDetectorArr(lsst_camera, build_lsst_pupil_coord_map(lsst_camera))
    /\ attrs' = attrs \cup {"_detector_arr"}
    /\ tpc' = [tpc EXCEPT ![t] = "build_bbox"]
    /\ UNCHANGED <<seq_vars, lsst_camera_cache, pupil_map, camera_bbox, tskip, tlen>>

\* Lines 257-265.
TBuildBBox(t) ==
    /\ tpc[t] = "build_bbox"
    /\ camera_bbox' = BuildCameraBBox(lsst_camera)
    /\ attrs' = attrs \cup {"_camera_bbox"}
    /\ tpc' = [tpc EXCEPT ![t] = "validate"]
    /\ UNCHANGED <<seq_vars, lsst_camera_cache, pupil_map, detector_arr, tskip, tlen>>

\* Lines 267-273.
TValidate(t) ==
    /\ tpc[t] = "validate"
    /\ tpc' = [tpc EXCEPT ![t] = "read_bbox"]
    /\ UNCHANGED <<seq_vars, index_vars, tskip, tlen>>

\* Lines 277-280: _camera_bbox is read once per point.
TReadBBox(t) ==
    /\ tpc[t] = "read_bbox"
    /\ tpc' = [tpc EXCEPT ![t] = IF tlen[t] > 0 /\ "_camera_bbox" \notin attrs
                                 THEN "attr_error" ELSE "read_map"]
    /\ UNCHANGED <<seq_vars, index_vars, tskip, tlen>>

\* Lines 289-291: _pupil_map is read.
TReadMap(t) ==
    /\ tpc[t] = "read_map"
    /\ tpc' = [tpc EXCEPT ![t] = IF "_pupil_map" \notin attrs
                                 THEN "attr_error" ELSE "read_arr"]
    /\ UNCHANGED <<seq_vars, index_vars, tskip, tlen>>

\* Lines 292-315: _detector_arr is read for the points inside the box; the
\* resolver then works on the locals of the call alone.
TReadArr(t) ==
    /\ tpc[t] = "read_arr"
    /\ tpc' = [tpc EXCEPT ![t] = IF tlen[t] > 0 /\ "_detector_arr" \notin attrs
                                 THEN "attr_error" ELSE "done"]
    /\ UNCHANGED <<seq_vars, index_vars, tskip, tlen>>

\* The call of the thread is over, by a return or by the AttributeError.
TReturn(t) ==
    /\ tpc[t] \in {"done", "attr_error"}
    /\ tpc' = [tpc EXCEPT ![t] = "start"]
    /\ tskip' = [tskip EXCEPT ![t] = FALSE]
    /\ tlen' = [tlen EXCEPT ![t] = 0]
    /\ UNCHANGED <<seq_vars, index_vars>>

NextThreads ==
    \E t \in Threads :
        \/ \E n \in 0..MaxPoints : TCall(t, n)
        \/ TBuildMap(t) \/ TBuildArr(t) \/ TBuildBBox(t)
        \/ TValidate(t) \/ TReadBBox(t) \/ TReadMap(t) \/ TReadArr(t)
        \/ TReturn(t)

SpecThreads == InitThreads /\ [][NextThreads]_vars

----------------------------------------------------------------------------

\* C6: two calls of chipNameFromPupilCoordsLSST with the same arguments give
\* the same result (or the same error), the call that built the index included.
C6_Idempotent ==
    (pc \in {"returned", "raised"} /\ prev.kind = "call" /\ prev.call = call)
        => prev.ret = ret

\* The kept call built the index, this one did not; a point is on two chips.
C6_Witness ==
    /\ pc = "returned"
    /\ prev.kind = "call" /\ prev.call = call /\ prev.ret = ret
    /\ prev.built /\ "corners" \notin geom
    /\ Len(call.x) = 2
    /\ \E i \in 1..Len(call.x) : ret.names[i].kind = "str"

\* C7: _pixelCoordsFromRaDecLSST without chipName finds the chips through
\* chipNameFromPupilCoordsLSST, raises nothing for a point on no chip (with at
\* least one point it raises only for bad arguments or metadata), returns NaN
\* for exactly the points whose chip name is None, and for the others a pixel
\* position inside the box of the chip found.
C7_PixelNaNIffNoMatch ==
    /\ (pc = "raised" /\ call.api = "pixel" /\ Len(call.x) > 0)
           => \/ ArgError(call, "pixelCoordsFromRaDecLSST") # ""
              \/ PupilCoordsError(call.obs) # ""
    /\ (pc = "returned" /\ call.api = "pixel") =>
           /\ ret.kind = "pixels"
           /\ fd.exit # "none"
           /\ Len(nameList) = Len(call.x)
           /\ Len(ret.pixels) = Len(call.x)
           /\ \A i \in 1..Len(call.x) :
                  /\ ret.pixels[i].nan <=> (nameList[i] = None)
                  /\ ~ret.pixels[i].nan =>
                         /\ nameList[i].kind = "name"
                         /\ BoxContains(
                                DetectorBBox(CameraGet(mapper_camera, nameList[i].names[1])),
                                <<ret.pixels[i].x, ret.pixels[i].y>>)

\* A finished pixel call with a point on no chip and a point on a chip.
C7_Witness ==
    /\ pc = "returned" /\ call.api = "pixel"
    /\ \E i, j \in 1..Len(call.x) :
           /\ ret.pixels[i].nan /\ nameList[i] = None
           /\ ~ret.pixels[j].nan /\ nameList[j].kind = "name"

\* The three parts of the index are set.
IndexBuilt == {"_pupil_map", "_detector_arr", "_camera_bbox"} \subseteq attrs

\* C8 as stated: once the index is built no later call builds it again (the
\* camera of the process never changes).
C8_NeverRebuilt_AsStated == ~(IndexBuilt /\ pc = "build_map")

\* C8 as amended: nothing is built before the first call; a call that reaches
\* chipNameFromPupilCoordsLSST without an index builds it; a built index is
\* built again only when its detector array is empty; and no step changes the
\* value of a built index.
C8_IndexCachedUnlessEmpty ==
    [][ /\ (~IndexBuilt /\ pc = "idle") => attrs = {}
        /\ (~IndexBuilt /\ pc = "idle" /\ pc' \notin {"idle", "raised"})
               => pc' = "build_map"
        /\ (IndexBuilt /\ pc' = "build_map" /\ pc # "build_map")
               => Len(detector_arr) = 0
        /\ IndexBuilt =>
               /\ pupil_map' = pupil_map
               /\ detector_arr' = detector_arr
               /\ camera_bbox' = camera_bbox
               /\ attrs' = attrs ]_vars

\* A later call on a camera with detectors goes past the build.
C8_Witness ==
    /\ IndexBuilt
    /\ Len(detector_arr) > 0
    /\ pc = "filter"
    /\ "corners" \notin geom

\* C9: a thread whose guard skipped the build finds the three parts of the
\* index set, and no thread fails on a missing part.
C9_SharedIndexComplete ==
    \A t \in DOMAIN tpc :
        /\ tpc[t] # "attr_error"
        /\ (tskip[t] /\ tpc[t] \in {"validate", "read_bbox", "read_map", "read_arr"})
               => IndexBuilt

ValidationErrors ==
    {"chipNameFromPupilCoordsLSST: xPupil, yPupil",
     "chipNameFromRaDecLSST: ra, dec",
     "pixelCoordsFromRaDecLSST: ra, dec"}

\* C10: when an entry point raises for arrays of different lengths, the call
\* has done no geometric computation, the building of the index included.
C10_ValidationBeforeGeometry ==
    (pc = "raised" /\ ret.error \in ValidationErrors) => geom = {}

----------------------------------------------------------------------------

\* What the entry points look for themselves, each with the message naming it.
MissingItems(a) ==
    (IF a.epoch.given THEN {} ELSE {"You need to pass an epoch"})
    \cup (IF a.obs.given THEN {} ELSE {"You need to pass an ObservationMetaData"})
    \cup (IF a.obs.given /\ ~a.obs.has_mjd
          THEN {"You need to pass an ObservationMetaData with an mjd"} ELSE {})
    \cup (IF a.obs.given /\ ~a.obs.has_rot
          THEN {"You need to pass an ObservationMetaData with a rotSkyPos"} ELSE {})

\* The pointing is missing from the metadata given.
MissingPointing(a) ==
    IF a.obs.given /\ ~a.obs.has_pointing
    THEN {"pupilCoordsFromRaDec: pointingRA, pointingDec"} ELSE {}

\* C11 as stated: _chipNameFromRaDecLSST and _pixelCoordsFromRaDecLSST, given
\* no epoch, no ObservationMetaData, or one without mjd, rotSkyPos or pointing,
\* raise an error naming something that is missing, before the conversion to
\* pupil coordinates, the building of the index and the search for chips.
C11_FailsBeforeConversion ==
    (call.api \in {"sky", "pixel"} /\ ValidateInputs(call.x, call.y)
         /\ MissingItems(call) \cup MissingPointing(call) # {}) =>
        /\ pc = "raised"
        /\ ret.error \in MissingItems(call) \cup MissingPointing(call)
        /\ geom = {}
        /\ pupil = NoPupil
        /\ fd = NoFd

\* C11 as amended: without an epoch, an ObservationMetaData, its mjd or its
\* rotSkyPos the entry point raises an error naming something that is missing
\* before it calls the conversion; without the pointing alone it calls the
\* conversion, which raises the error naming the pointing; either way no pupil
\* coordinates are made, no index is built and no chip is searched; and with
\* nothing missing the conversion is made for the epoch given, never another.
C11_MissingMetadataFails ==
    (call.api \in {"sky", "pixel"} /\ ValidateInputs(call.x, call.y)) =>
        /\ MissingItems(call) # {} =>
              /\ pc = "raised"
              /\ ret.error \in MissingItems(call)
              /\ geom = {}
              /\ pupil = NoPupil
              /\ fd = NoFd
        /\ (MissingItems(call) = {} /\ MissingPointing(call) # {}) =>
              /\ pc = "raised"
              /\ ret.error \in MissingPointing(call)
              /\ geom = {"pupilCoordsFromRaDec"}
              /\ pupil = NoPupil
              /\ fd = NoFd
        /\ (MissingItems(call) \cup MissingPointing(call) = {} /\ pupil # NoPupil)
               => pupil.epoch = call.epoch

\* A pixel call on a built index, with an epoch and metadata that lack rotSkyPos.
C11_Witness ==
    /\ pc = "raised" /\ call.api = "pixel"
    /\ IndexBuilt /\ Len(detector_arr) > 0
    /\ Len(call.x) > 0
    /\ call.epoch.given /\ call.obs.given /\ call.obs.has_mjd /\ ~call.obs.has_rot
    /\ ret.error = "You need to pass an ObservationMetaData with a rotSkyPos"

\* The catalog has a detector whose footprint has no area, or whose corners
\* are not four.
Malformed(camera) ==
    \E i \in 1..Len(camera) :
        \/ camera[i].w = 0
        \/ camera[i].h = 0
        \/ Len(GetCornerPixels(camera[i])) # 4

\* C12: for a catalog with a detector of no area or not of four corners the
\* building of the index fails: no part of an index is ever set, and no call
\* gets as far as the candidate filter.
C12_MalformedCatalogFails ==
    Malformed(mapper_camera) =>
        /\ attrs \cap {"_pupil_map", "_detector_arr", "_camera_bbox"} = {}
        /\ ~FilterDone

\* C13: when the building of the index has failed, no part of the index stays
\* set: between calls the index is whole or absent, and a call that goes past
\* the building has a whole index to read.
C13_NoPartialIndex ==
    /\ pc = "idle" =>
           \/ attrs \cap {"_pupil_map", "_detector_arr", "_camera_bbox"} = {}
           \/ IndexBuilt
    /\ pc \in {"validate", "filter", "fd_init", "fd_outer", "fd_inner", "fd_done"}
           => IndexBuilt

\* C14: chipNameFromPupilCoordsLSST, _chipNameFromRaDecLSST and
\* chipNameFromRaDecLSST, given two scalars, return one name (or None) and not
\* an array of one; given arrays they return an array of the same length.
C14_ScalarInScalarOut ==
    (pc = "returned" /\ call.api \in {"lookup", "sky"}) =>
        IF call.scalar
        THEN ret.kind = "scalar"
        ELSE ret.kind = "names" /\ Len(ret.names) = Len(call.x)

\* C15: the names _chipNameFromRaDecLSST returns for (ra, dec) are, point by
\* point, those chipNameFromPupilCoordsLSST returns for the pupil coordinates
\* of the same objects, with the same allow_multiple_chips.
C15_SkyIsConversionThenLookup ==
    (pc = "returned" /\ call.api = "lookup" /\ prev.kind = "call"
         /\ prev.call.api = "sky" /\ call = ReferenceArgs(prev.call))
        => /\ ret.kind = "names"
           /\ ret.names = prev.ret.names

\* Two objects seen for the epoch 2015 with allow_multiple_chips, one on a chip
\* and one on none, and the lookup of their pupil coordinates done.
C15_Witness ==
    /\ pc = "returned" /\ call.api = "lookup"
    /\ prev.kind = "call" /\ prev.call.api = "sky"
    /\ call = ReferenceArgs(prev.call)
    /\ prev.call.epoch = Epoch(2015) /\ prev.call.allow
    /\ Len(call.x) = 2
    /\ ret.names[1].kind = "name" /\ ret.names[2] = None
    /\ ret.names = prev.ret.names

\* C16: pixelCoordsFromRaDecLSST hands the epoch it is given on to
\* _pixelCoordsFromRaDecLSST, and the pupil coordinates are made for that
\* epoch, as for chipNameFromRaDecLSST.
C16_EpochForwarded ==
    (call.wrapped /\ call.api \in {"sky", "pixel"} /\ call.epoch_in.given) =>
        /\ call.epoch = call.epoch_in
        /\ pupil # NoPupil => pupil.epoch = call.epoch_in

\* C17: without allow_multiple_chips, a point that more than one chip holds
\* gets the name of the first of them alone, and a warning is emitted for it.
C17_FirstChipAndWarning ==
    (LookupDone /\ ~AllowMultipleChips(call)) =>
        \A i \in 1..Len(PupilPointList) :
            Cardinality(Containing(i)) > 1 =>
                /\ nameList[i] = ChipName(VisitedContaining(i)[1])
                /\ InSeq(i, fd.warnings)

\* The sequence without its repeats, each element where it first stands.
RECURSIVE Dedup(_)
Dedup(s) ==
    IF s = <<>> THEN <<>>
    ELSE LET r == Dedup(SubSeq(s, 1, Len(s) - 1))
         IN  IF InSeq(s[Len(s)], r) THEN r ELSE Append(r, s[Len(s)])

\* The detectors of the candidate lists in the order in which a scan of the
\* lists, left to right and point by point, first meets them.
FirstEncounters(detectorList) == Dedup(Concat(detectorList))

\* The resolver is at work or has just returned.
Resolving == pc \in {"fd_outer", "fd_inner", "fd_done"}

\* C18 as stated: when the resolver returns, it has visited every detector of
\* the candidate lists once, in the order of the first encounters.
C18_EveryDetectorVisited ==
    pc = "fd_done" => fd.checked_detectors = FirstEncounters(valid_detectors)

\* The candidate lists that the resolver has scanned or is scanning: those of
\* the points that were unresolved when their turn came (fd.scanned records
\* the points for which line 163 was reached).
ScannedLists == [k \in 1..Len(fd.scanned) |-> valid_detectors[fd.scanned[k]]]

\* s is an initial part of t.
IsPrefix(s, t) == Len(s) <= Len(t) /\ SubSeq(t, 1, Len(s)) = s

\* C18 as amended: only the lists of the points unresolved when their turn
\* comes are scanned; no detector is visited twice, and the visits happen in
\* the order in which the detectors are first encountered in the scan of those
\* lists, left to right and point by point.  Between two points, and when the
\* resolver returns after the last point, every detector of the lists scanned
\* has been visited, so every detector on the list of a point still unresolved
\* has been.  (Detectors met only on the lists of points resolved before their
\* turn, or only after the early exit, are not visited.)
C18_VisitedOnceInOrder ==
    Resolving =>
        /\ \A i \in 1..Len(valid_detectors) :
               /\ InSeq(i, fd.scanned) => i <= fd.ipt
               /\ (i < fd.ipt /\ ~InSeq(i, fd.scanned)) => fd.chip_has_found[i] >= 0
        /\ IsPrefix(fd.checked_detectors, FirstEncounters(ScannedLists))
        /\ (pc = "fd_outer" \/ fd.exit = "end") =>
               fd.checked_detectors = FirstEncounters(ScannedLists)
        /\ (pc = "fd_done" /\ fd.exit = "end") =>
               \A i \in 1..Len(valid_detectors) :
                   fd.chip_has_found[i] < 0 =>
                       \A k \in 1..Len(valid_detectors[i]) :
                           InSeq(valid_detectors[i][k], fd.checked_detectors)

\* The resolver has returned after the last point, having visited two
\* detectors and left out a third one that stands on the list of a point
\* resolved before its turn.
C18_Witness ==
    /\ pc = "fd_done" /\ fd.exit = "end"
    /\ Len(fd.checked_detectors) = 2
    /\ Len(FirstEncounters(valid_detectors)) = 3

\* The names of the candidates of point i that hold it, in the order of the visits.
CandidatesContaining(i) ==
    LET ds == SelectSeq(fd.checked_detectors,
                        LAMBDA d : /\ InSeq(d, valid_detectors[i])
                                   /\ ContainsPoint(d, PupilPointList[i]))
    IN  [k \in 1..Len(ds) |-> ds[k].name]

\* Point i has been handed to the transform of detector d.
TestedOn(i, d) ==
    \E k \in 1..Len(fd.xlog) : fd.xlog[k].det = d.name /\ InSeq(i, fd.xlog[k].pts)

\* C19: a point that could be on several chips is never marked found; when the
\* resolver returns it has been tested on every detector of its candidate list,
\* and its entry holds the candidates that hold it, each once, in the order of
\* the visits: the string of the list for several, the plain name for one,
\* None for none.
C19_MultiEligibleGetsAll ==
    Resolving =>
        \A i \in 1..Len(fd.could_be_multiple) :
            fd.could_be_multiple[i] =>
                /\ fd.chip_has_found[i] < 0
                /\ pc = "fd_done" =>
                      /\ fd.exit = "end"
                      /\ \A k \in 1..Len(valid_detectors[i]) :
                             TestedOn(i, valid_detectors[i][k])
                      /\ fd.outputNameList[i] =
                             IF Len(CandidatesContaining(i)) = 0 THEN None
                             ELSE IF Len(CandidatesContaining(i)) = 1
                                  THEN ChipName(CandidatesContaining(i)[1])
                                  ELSE Multiple(CandidatesContaining(i))

\* Two such points at the return: one on two chips, one on a single chip.
C19_Witness ==
    /\ pc = "fd_done"
    /\ \E i, j \in 1..Len(fd.could_be_multiple) :
           /\ fd.could_be_multiple[i] /\ fd.could_be_multiple[j]
           /\ Len(CandidatesContaining(i)) = 2 /\ fd.outputNameList[i].kind = "str"
           /\ Len(CandidatesContaining(j)) = 1 /\ fd.outputNameList[j].kind = "name"

\* C20: the resolver takes a point for one that could be on several chips
\* exactly when allow_multiple_chips is set and a detector of its candidate
\* list is a WAVEFRONT one, whether that detector holds the point or not: such
\* points, and no others, keep being searched after a chip is found for them;
\* without allow_multiple_chips there is no such point and no entry is a list.
C20_MultiEligibleIffOverlapCandidate ==
    Resolving =>
        /\ \A i \in 1..Len(fd.could_be_multiple) :
              /\ fd.could_be_multiple[i] <=>
                     /\ AllowMultipleChips(call)
                     /\ \E d \in Range(valid_detectors[i]) : d.type = "WAVEFRONT"
              /\ (fd.chip_has_found[i] < 0 /\ fd.outputNameList[i] # None)
                     => /\ AllowMultipleChips(call)
                        /\ \E d \in Range(valid_detectors[i]) : d.type = "WAVEFRONT"
        /\ ~AllowMultipleChips(call) =>
              \A i \in 1..Len(fd.outputNameList) :
                  fd.outputNameList[i].kind \in {"None", "name"}

\* With allow_multiple_chips, a point on a science chip alone whose list has a
\* wavefront chip that does not hold it: named, and still searched.
C20_Witness ==
    /\ pc = "fd_done" /\ AllowMultipleChips(call)
    /\ \E i \in 1..Len(fd.could_be_multiple) :
           /\ fd.could_be_multiple[i]
           /\ fd.chip_has_found[i] < 0
           /\ fd.outputNameList[i].kind = "name"
           /\ \A d \in Range(valid_detectors[i]) :
                  d.type = "WAVEFRONT" => ~ContainsPoint(d, PupilPointList[i])

\* The resolver is about to take a step of its loops.
InLoops == pc \in {"fd_outer", "fd_inner"}

\* The step visits a detector and hands points to its transform.
Transforms == Len(fd'.xlog) > Len(fd.xlog)

\* The points handed to the transform by the step.
Gathered == fd'.xlog[Len(fd'.xlog)].pts

\* The detector that the step visits.
Visited == valid_detectors[fd.ipt][fd.idet]

\* C21: a point that could not be on several chips has no name while it is
\* unfound; the step that finds it on a chip gives it the name of that chip
\* and marks it found; from then on no step hands it to a transform, changes
\* its entry or unmarks it.
C21_ResolvedOnce ==
    [][InLoops =>
        \A i \in 1..Len(fd.chip_has_found) :
            ~fd.could_be_multiple[i] =>
                /\ fd.chip_has_found[i] < 0 => fd.outputNameList[i] = None
                /\ fd.chip_has_found[i] >= 0 =>
                      /\ fd'.outputNameList[i] = fd.outputNameList[i]
                      /\ fd'.chip_has_found[i] = fd.chip_has_found[i]
                      /\ Transforms => ~InSeq(i, Gathered)
                /\ (fd.chip_has_found[i] < 0 /\ fd'.outputNameList[i] # None) =>
                      /\ fd'.chip_has_found[i] = 1
                      /\ Transforms /\ InSeq(i, Gathered)
                      /\ fd'.outputNameList[i] = ChipName(Visited.name)
                      /\ ContainsPoint(Visited, PupilPointList[i])
                /\ (fd.chip_has_found[i] < 0 /\ Transforms /\ InSeq(i, Gathered)
                        /\ ContainsPoint(Visited, PupilPointList[i])) =>
                      fd'.outputNameList[i] = ChipName(Visited.name)]_vars

\* A point found on a chip, and a later visit of another detector of its
\* list that left it out.
C21_Witness ==
    /\ Resolving
    /\ \E i \in 1..Len(fd.chip_has_found) : \E k \in 1..Len(fd.xlog) :
           /\ ~fd.could_be_multiple[i] /\ fd.chip_has_found[i] = 1
           /\ fd.outputNameList[i].kind = "name"
           /\ fd.xlog[k].det # fd.outputNameList[i].names[1]
           /\ \E d \in Range(valid_detectors[i]) : d.name = fd.xlog[k].det
           /\ ~InSeq(i, fd.xlog[k].pts)
           /\ \E l \in 1..(k - 1) :
                  fd.xlog[l].det = fd.outputNameList[i].names[1] /\ InSeq(i, fd.xlog[l].pts)

\* The places of the candidate lists in the order of the loops of lines 161
\* and 163: <<point, position in its list>>.
ScanOrder(detectorList) ==
    Concat([i \in 1..Len(detectorList) |->
               [k \in 1..Len(detectorList[i]) |-> <<i, k>>]])

\* Lines 161-211 at one place of the lists, without the return of lines
\* 176-181: the list of a point is entered if the point is unfound when its
\* turn comes, and a detector not yet considered is recorded and tested.
ScanPlace(f, place, detectorList) ==
    LET i == place[1]
        d == detectorList[place[1]][place[2]]
        g == IF place[2] = 1 /\ f.chip_has_found[i] < 0
             THEN [f EXCEPT !.scanned = Append(f.scanned, i)]
             ELSE f
    IN  IF InSeq(i, g.scanned) /\ ~InSeq(d, g.checked_detectors)
        THEN TestDetector(BeginVisit(g, d), d, detectorList)
        ELSE g

RECURSIVE ScanPlaces(_, _, _)
ScanPlaces(f, places, detectorList) ==
    IF places = <<>> THEN f
    ELSE ScanPlaces(ScanPlace(f, Head(places), detectorList), Tail(places), detectorList)

\* What the resolver returns if it scans every candidate list to its end.
FullScan(pupilPointList, detectorList, allow_multiple_chips) ==
    Stringify(ScanPlaces(FDInit(pupilPointList, detectorList, allow_multiple_chips),
                         ScanOrder(detectorList), detectorList).outputNameList)

\* C22: no transform is applied to an empty set of points or to a point
\* already found; when the resolver returns through the early exit every
\* point is found, the detector it was about to test got no transform, and
\* the array it returns (by either exit) is the array of the full scan.
C22_EarlyExitEqualsFullScan ==
    Resolving =>
        /\ \A k \in 1..Len(fd.xlog) : Len(fd.xlog[k].pts) > 0
        /\ (pc = "fd_done" /\ fd.exit = "early") =>
              /\ \A i \in 1..Len(fd.chip_has_found) : fd.chip_has_found[i] >= 0
              /\ \A k \in 1..Len(fd.xlog) :
                     fd.xlog[k].det # fd.checked_detectors[Len(fd.checked_detectors)].name
        /\ pc = "fd_done" =>
              fd.outputNameList =
                  FullScan(PupilPointList, valid_detectors, AllowMultipleChips(call))

\* The resolver has left through the early exit with two points, both found,
\* candidates being left that no transform was applied for.
C22_Witness ==
    /\ pc = "fd_done" /\ fd.exit = "early"
    /\ Len(PupilPointList) = 2
    /\ \A i \in 1..2 : fd.outputNameList[i].kind = "name"
    /\ \E i \in 1..2 : \E d \in Range(valid_detectors[i]) :
           \A k \in 1..Len(fd.xlog) : fd.xlog[k].det # d.name

\* The step records a detector not considered before.
Visits == Len(fd'.checked_detectors) > Len(fd.checked_detectors)

\* The points unfound before the step that have the detector of the step on
\* their candidate list.
UnfoundWith(d) ==
    {i \in 1..Len(fd.chip_has_found) :
        fd.chip_has_found[i] < 0 /\ InSeq(d, valid_detectors[i])}

\* C23: a step of the resolver calls a transform only if it visits a
\* detector; the visit calls the transform of that detector exactly when some
\* unfound point has the detector on its candidate list, and on exactly those
\* points, each once; a point with no candidate is never handed to a transform.
C23_TransformOnExactlyTheUnfound ==
    [][InLoops =>
        /\ Transforms => Visits /\ Len(fd'.xlog) = Len(fd.xlog) + 1
        /\ Visits =>
              /\ pc = "fd_inner" /\ InSeq(fd.ipt, fd.scanned)
              /\ fd'.checked_detectors = Append(fd.checked_detectors, Visited)
              /\ Transforms <=> UnfoundWith(Visited) # {}
              /\ Transforms =>
                    /\ fd'.xlog[Len(fd'.xlog)].det = Visited.name
                    /\ Range(Gathered) = UnfoundWith(Visited)
                    /\ Len(Gathered) = Cardinality(UnfoundWith(Visited))
        /\ \A i \in 1..Len(valid_detectors) :
              Len(valid_detectors[i]) = 0 =>
                  \A k \in 1..Len(fd'.xlog) : ~InSeq(i, fd'.xlog[k].pts)]_vars

\* The resolver went through all the points; one detector it visited got no
\* transform, no unfound point having it on its list, and another got one.
C23_Witness ==
    /\ pc = "fd_done" /\ fd.exit = "end"
    /\ Len(fd.xlog) > 0
    /\ \E d \in Range(fd.checked_detectors) : \A k \in 1..Len(fd.xlog) : fd.xlog[k].det # d.name

\* The points whose chip_has_found is negative, in order.
Unfound(f) ==
    SelectSeq(Indices(Len(f.chip_has_found)), LAMBDA i : f.chip_has_found[i] < 0)

\* unfound_pts is up to date, or is marked for being computed again.
Fresh(f) == ~f.update_unfound => f.unfound_pts = Unfound(f)

\* C24: a point without candidates counts as found from the start; no step
\* turns a found point into an unfound one; unfound_pts is never out of date
\* without being marked so, and the test made before a detector is tested
\* sees exactly the points that are unfound then: the resolver returns there
\* exactly when there is none.
C24_UnfoundBookkeeping ==
    [][InLoops =>
        /\ \A i \in 1..Len(valid_detectors) :
              /\ Len(valid_detectors[i]) = 0 => fd.chip_has_found[i] >= 0
              /\ fd.chip_has_found[i] >= 0 => fd'.chip_has_found[i] >= 0
        /\ Len(Unfound(fd')) <= Len(Unfound(fd))
        /\ Fresh(fd) /\ Fresh(fd')
        /\ Visits =>
              /\ BeginVisit(fd, Visited).unfound_pts = Unfound(fd)
              /\ fd'.exit = "early" <=> Unfound(fd) = <<>>]_vars

\* A point was found, and the unfound points were computed again without it
\* for the next detector.
C24_Witness ==
    /\ Resolving
    /\ Len(fd.chip_has_found) = 2
    /\ fd.chip_has_found = <<1, -1>> /\ Len(valid_detectors[1]) > 0
    /\ ~fd.update_unfound /\ fd.unfound_pts = <<2>>

\* The squared distance of point p from the center of entry c of the index.
DistSq(p, c) ==
    (p[1] - pupil_map.xx[c]) * (p[1] - pupil_map.xx[c]) +
    (p[2] - pupil_map.yy[c]) * (p[2] - pupil_map.yy[c])

\* The center of entry c is nearer to p than 1.1 radii of entry c, exactly at
\* 1.1 radii, or farther (squares compared, both sides times 100).
Nearer(p, c) == 100 * DistSq(p, c) < 121 * pupil_map.dp[c] * pupil_map.dp[c]
AtLimit(p, c) == 100 * DistSq(p, c) = 121 * pupil_map.dp[c] * pupil_map.dp[c]

\* C25: there is one candidate list per point, in the order of the points;
\* the list of a point outside the camera's box is empty; the list of a point
\* inside it holds, in the order of the index, exactly the detectors whose
\* center is nearer than 1.1 radii: a detector at exactly 1.1 radii is not
\* on it.
C25_CandidateFilter ==
    FilterDone =>
        /\ Len(valid_detectors) = Len(call.x)
        /\ \A i \in 1..Len(valid_detectors) :
              IF OutsideBound(i)
              THEN valid_detectors[i] = <<>>
              ELSE /\ valid_detectors[i] =
                          SelectSeq(detector_arr,
                                    LAMBDA d : \E c \in 1..Len(detector_arr) :
                                        detector_arr[c] = d /\ Nearer(PupilPointList[i], c))
                   /\ \A c \in 1..Len(detector_arr) :
                          AtLimit(PupilPointList[i], c)
                              => ~InSeq(detector_arr[c], valid_detectors[i])

\* A point inside the box at exactly 1.1 radii from one center and nearer to
\* another, with the second detector alone on its list; a point outside the box.
C25_Witness ==
    /\ FilterDone
    /\ \E i, j \in 1..Len(valid_detectors) :
           /\ OutsideBound(j) /\ valid_detectors[j] = <<>>
           /\ ~OutsideBound(i) /\ Len(valid_detectors[i]) = 1
           /\ \E c \in 1..Len(detector_arr) : AtLimit(PupilPointList[i], c)

\* The four corners of detector d in pupil coordinates.
PupilCorners(d) ==
    [k \in 1..4 |-> PupilCoordsFromPixelCoords(GetCornerPixels(d)[k], mapper_camera, d.name)]

\* The points of the pupil grid on the footprint of detector d, its edges and
\* corners included.
Footprint(d) ==
    LET xs == {PupilCorners(d)[k][1] : k \in 1..4}
        ys == {PupilCorners(d)[k][2] : k \in 1..4}
    IN  {<<x, y>> : x \in Min(xs)..Max(xs), y \in Min(ys)..Max(ys)}

\* The footprint of d has a positive area.
PositiveArea(d) == d.w > 0 /\ d.h > 0

\* The index is built and the candidate lists of a call have just been made.
FilterDoneOnIndex == pc = "fd_init" /\ Len(detector_arr) = Len(mapper_camera)

\* C26: every point of the footprint of a detector whose footprint is a
\* rectangle (a box of positive area) is no farther from the detector's center
\* than one radius, hence nearer than 1.1 radii, and every detector is on the
\* list of each point inside the camera's box that it holds.  (A box without
\* area is no rectangle: its radius is 0 and it holds no point.)
C26_RecallForRectangles ==
    FilterDoneOnIndex =>
        /\ \A c \in 1..Len(detector_arr) :
               /\ PositiveArea(detector_arr[c]) =>
                      \A p \in Footprint(detector_arr[c]) :
                          /\ DistSq(p, c) <= pupil_map.dp[c] * pupil_map.dp[c]
                          /\ Nearer(p, c)
               /\ ~PositiveArea(detector_arr[c]) =>
                      /\ pupil_map.dp[c] = 0
                      /\ \A p \in QueryPoints : ~ContainsPoint(detector_arr[c], p)
        /\ \A i \in 1..Len(valid_detectors) :
               ~OutsideBound(i) =>
                   \A d \in Containing(i) : InSeq(d, valid_detectors[i])

\* A point on a detector of positive area that is on its list together with a
\* detector that does not hold it; the corners of the first are at exactly one
\* radius from its center.
C26_Witness ==
    /\ FilterDoneOnIndex
    /\ \E i \in 1..Len(valid_detectors) : \E c \in 1..Len(detector_arr) :
           /\ ~OutsideBound(i)
           /\ PositiveArea(detector_arr[c])
           /\ detector_arr[c] \in Containing(i)
           /\ InSeq(detector_arr[c], valid_detectors[i])
           /\ Len(valid_detectors[i]) >= 2
           /\ \A k \in 1..4 :
                  DistSq(PupilCorners(detector_arr[c])[k], c) = pupil_map.dp[c] * pupil_map.dp[c]

\* The distance of corner k of detector d from the point (xx, yy), in pupil
\* coordinates.
CornerDistance(d, k, xx, yy) ==
    ISqrt((xx - PupilCorners(d)[k][1]) * (xx - PupilCorners(d)[k][1]) +
          (yy - PupilCorners(d)[k][2]) * (yy - PupilCorners(d)[k][2]))

\* C27: the map holds one entry per detector of the camera, in the order of
\* the camera; entry i has the name of detector i, the mean of the four
\* corners of detector i as center and the mean distance of those corners from
\* the center as radius; entry i of the detector array is detector i.  (Read
\* after each step of the build and before the first use of the index.)
C27_OneEntryPerDetector ==
    pc \in {"build_arr", "build_bbox", "validate"} =>
        /\ "_pupil_map" \in attrs =>
              /\ Len(pupil_map.name) = Len(mapper_camera)
              /\ Len(pupil_map.xx) = Len(mapper_camera)
              /\ Len(pupil_map.yy) = Len(mapper_camera)
              /\ Len(pupil_map.dp) = Len(mapper_camera)
              /\ \A i \in 1..Len(mapper_camera) :
                    /\ pupil_map.name[i] = mapper_camera[i].name
                    /\ 4 * pupil_map.xx[i] =
                           SumSeq([k \in 1..4 |-> PupilCorners(mapper_camera[i])[k][1]])
                    /\ 4 * pupil_map.yy[i] =
                           SumSeq([k \in 1..4 |-> PupilCorners(mapper_camera[i])[k][2]])
                    /\ 4 * pupil_map.dp[i] =
                           SumSeq([k \in 1..4 |->
                               CornerDistance(mapper_camera[i], k,
                                              pupil_map.xx[i], pupil_map.yy[i])])
        /\ "_detector_arr" \in attrs =>
              /\ Len(detector_arr) = Len(mapper_camera)
              /\ \A i \in 1..Len(mapper_camera) :
                    /\ detector_arr[i] = mapper_camera[i]
                    /\ detector_arr[i].name = pupil_map.name[i]

\* The call under way has built the index of the camera of four detectors.
C27_Witness ==
    /\ pc = "validate"
    /\ IndexBuilt /\ "corners" \in geom
    /\ pupil_map.name = <<"S0", "W0", "W1", "S1">>
    /\ pupil_map.xx = <<3, 9, 13, 31>>
    /\ pupil_map.dp = <<5, 5, 5, 5>>
    /\ Len(detector_arr) = 4

\* C28: the entry of a point in the array returned for a batch is the entry
\* returned for the batch of that point alone, allow_multiple_chips being the
\* same (the batch is the kept call, the point alone the call under way).
C28_BatchIndependent ==
    ( /\ pc = "returned" /\ ret.kind = "names"
      /\ Len(call.x) = 1 /\ Len(call.y) = 1
      /\ prev.kind = "call" /\ prev.ret.kind = "names"
      /\ prev.call.allow = call.allow )
    => \A i \in 1..Len(prev.call.x) :
           (prev.call.x[i] = call.x[1] /\ prev.call.y[i] = call.y[1])
               => prev.ret.names[i] = ret.names[1]

----------------------------------------------------------------------------
\* One batch looked up with allow_multiple_chips and then without.

\* Largest number of points in a batch looked up both ways.
MaxPairPoints == 3

\* The wavefront halves with a science chip on either side, the right one
\* adjoining W1.
AdjacentCamera ==
    << Detector("S0", "SCIENCE", 0, 0, 12, 16),
       Detector("W0", "WAVEFRONT", 12, 0, 12, 16),
       Detector("W1", "WAVEFRONT", 20, 0, 12, 16),
       Detector("S2", "SCIENCE", 32, 0, 12, 16) >>

PairPoints == { <<5, 6>>, <<11, 4>>, <<17, 4>>, <<21, 4>> }

PairBatches == UNION {[1..n -> PairPoints] : n \in 1..MaxPairPoints}

PairArgs == {Args("lookup", Xs(b), Ys(b), TRUE, NoObs) : b \in PairBatches}

InitPair ==
    /\ mapper_camera \in {LsstCamera, AdjacentCamera}
    /\ attrs = {}
    /\ lsst_camera_cache = <<>>
    /\ pupil_map = [name |-> <<>>, xx |-> <<>>, yy |-> <<>>, dp |-> <<>>]
    /\ detector_arr = <<>>
    /\ camera_bbox = EmptyBox
    /\ pc = "idle"
    /\ call = NoCall
    /\ pupil = NoPupil
    /\ valid_detectors = <<>>
    /\ fd = NoFd
    /\ nameList = <<>>
    /\ ret = NoRet
    /\ geom = {}
    /\ prev = NoPrev
    /\ tpc = <<>>
    /\ tskip = <<>>
    /\ tlen = <<>>

\* The call with allow_multiple_chips is kept; the same batch is then looked
\* up with allow_multiple_chips=False.
NextPair ==
    \/ pc = "idle" /\ prev.kind = "none" /\ \E a \in PairArgs : CallLookup(a)
    \/ pc = "returned" /\ prev.kind = "none" /\ Finish(TRUE)
    \/ pc = "idle" /\ prev.kind = "call" /\ CallLookup([prev.call EXCEPT !.allow = FALSE])
    \/ Steps
    \/ prev.kind = "call" /\ Finish(FALSE)

SpecPair == InitPair /\ [][NextPair]_vars

\* C29: where the call with allow_multiple_chips returned several chips for a
\* point, the call on the same batch without it returns the first of them.
C29_FirstOfMultiple ==
    ( /\ pc = "returned" /\ ret.kind = "names"
      /\ prev.kind = "call" /\ prev.ret.kind = "names"
      /\ ~call.allow /\ prev.call = [call EXCEPT !.allow = TRUE] )
    => \A i \in 1..Len(call.x) :
           prev.ret.names[i].kind = "str"
               => ret.names[i] = ChipName(prev.ret.names[i].names[1])

----------------------------------------------------------------------------
\* Calls of chipNameFromPupilCoordsLSST that run on: the resolver, once
\* called, takes its next step as long as it has one.
NextLive ==
    \/ pc = "idle" /\ \E a \in LookupArgs : CallLookup(a)
    \/ Steps
    \/ Finish(FALSE)

\* The steps of _findDetectorsListLSST.
FindSteps ==
    \/ FindInit \/ FDOuterSkip \/ FDOuterEnter \/ FDInnerSkip \/ FDInnerVisit
    \/ FDInnerEarly \/ FDInnerEnd \/ FDOuterEnd

SpecLive == Init /\ [][NextLive]_vars /\ WF_vars(FindSteps)

\* C30: a call of the resolver returns, with one entry per point, whether or
\* not every point was found.
C30_ResolverTerminates ==
    (pc = "fd_init") ~> (pc = "fd_done" /\ Len(fd.outputNameList) = Len(PupilPointList))

\* The resolver has returned after the last point with two points left
\* unfound: one on two chips, one that could be on several and is on none.
C30_Witness ==
    /\ pc = "fd_done" /\ fd.exit = "end"
    /\ Len(fd.outputNameList) = 2
    /\ \E i, j \in 1..2 :
           /\ fd.chip_has_found[i] < 0 /\ fd.outputNameList[i].kind = "str"
           /\ fd.chip_has_found[j] < 0 /\ fd.outputNameList[j] = None

====
